---- MODULE Spec2Model ----
(***************************************************************************)
(* Model of cex-orderbook-collector-rs: the OrderBookCollector registry    *)
(* (handles / alive maps), the control thread that calls start, stop,      *)
(* start_multiple, stop_all and update_tasks_based_on_config, and the      *)
(* worker threads spawned by start.                                        *)
(***************************************************************************)
EXTENDS Integers, Sequences, FiniteSets, TLC

VARIABLES
    handles,    \* OrderBookCollector.handles : symbol -> task id (JoinHandle)
    alive,      \* OrderBookCollector.alive   : symbol -> flag value (Arc<AtomicBool>)
    tasks,      \* every thread ever spawned by start, indexed by task id
    files,      \* the filesystem under data/: path -> sequence of appended lines
    now,        \* the wall clock, Utc::now(), in epoch milliseconds
    pc,         \* where the control thread is
    op,         \* the call the control thread is executing (arguments, state at entry, trace)
    pending,    \* start_multiple: keys still to visit; stop_all: handles still to join
    joining,    \* the task the control thread is blocked on in handle.join(), 0 if none
    retired,    \* the threads still running although a stop of their symbol has returned
    hist        \* the fetches of task 1 so far, each with what it found and left

vars == <<handles, alive, tasks, files, now, pc, op, pending, joining, retired, hist>>

-----------------------------------------------------------------------------
(* Bounds of the model *)

MaxTasks == 2
MaxList == 2
MaxAppends == 2
MaxFetches == 3
MaxSymbolLen == 3
MaxRestarts == 3

-----------------------------------------------------------------------------
(* Symbols, tickers, exchange clients *)

SymbolPool == { <<"A", "_", "B">>, <<"C", "_", "D">>, <<"A", "B">> }

RECURSIVE FindFrom(_, _)
FindFrom(symbol, i) ==
    IF i > Len(symbol) THEN 0
    ELSE IF symbol[i] = "_" THEN i
    ELSE FindFrom(symbol, i + 1)

\* the index of the last separator, 0 for None
FindLast(symbol) ==
    IF \E i \in DOMAIN symbol : symbol[i] = "_"
    THEN CHOOSE i \in DOMAIN symbol : symbol[i] = "_" /\ \A j \in DOMAIN symbol : symbol[j] = "_" => j <= i
    ELSE 0

\* symbol.find('_'): the index of the first separator, 0 for None
Find(symbol) == FindFrom(symbol, 1)

\* the characters of a symbol string: two letters and the separator
Chars == {"A", "B", "_"}

RECURSIVE StringsUpTo(_)
StringsUpTo(n) ==
    IF n = 0 THEN { <<>> }
    ELSE StringsUpTo(n - 1)
            \cup { Append(x, c) : x \in { y \in StringsUpTo(n - 1) : Len(y) = n - 1 }, c \in Chars }

\* every symbol string a caller can pass, up to the bound
Strings == StringsUpTo(MaxSymbolLen)

NoTicker == [some |-> FALSE, base |-> <<>>, quote |-> <<>>]

\* Ticker::new
TickerNew(symbol) ==
    LET index == Find(symbol) IN
    IF index # 0
    THEN [some |-> TRUE,
          base |-> SubSeq(symbol, 1, index - 1),
          quote |-> SubSeq(symbol, index + 1, Len(symbol))]
    ELSE NoTicker

\* Ticker::to_string
TickerToString(ticker) == ticker.base \o <<"_">> \o ticker.quote

Apis == {"BINANCE", "BITKUB"}

\* CexApi::name
ApiName(api) == api

\* CexApi::get_order_book_interval
GetOrderBookInterval(api) == IF api = "BINANCE" THEN 1 ELSE 2

-----------------------------------------------------------------------------
(* The worker thread *)

\* interval_in_milliseconds
IntervalMs(api) == GetOrderBookInterval(api) * 1000

\* no sleep is ever taken
SuspensionNone(api, t) == 0

\* the suspension computed from the clock: 0 when no sleep is taken
Suspension(api, t) ==
    LET remainder == t % IntervalMs(api) IN
    IF remainder > 0 THEN IntervalMs(api) - remainder ELSE 0

\* dir = format!("data/{}/{}", api.name(), ticker.to_string())
Dir(api, ticker) == <<"data", ApiName(api), TickerToString(ticker)>>

\* the hour is not floored
HourTimestampNoFloor(timestamp) == timestamp

\* hour_timestamp = timestamp / 3600 * 3600
HourTimestamp(timestamp) == (timestamp \div 3600) * 3600

\* line 146: whether the worker rotates to a new file
Rotates(hour_timestamp, last_saved_hour_timestamp) == hour_timestamp > last_saved_hour_timestamp

\* file_path.truncate(dir.len()); write!(file_path, "/{}.json", hour_timestamp)
RotatedPath(file_path, dir, hour_timestamp) ==
    SubSeq(file_path, 1, Len(dir)) \o <<hour_timestamp>>

\* the thread spawned by start: the worker's arguments and its locals
NewTask(symbol, ticker, api) ==
    [sym |-> symbol, ticker |-> [base |-> ticker.base, quote |-> ticker.quote],
     api |-> api, pc |-> "align", file_path |-> <<>>, last |-> 0]

TaskIds == 1..Len(tasks)

Live(t) == tasks[t].pc \notin {"done", "panicked"}

\* every line of every file, with the file and the position it is at
Envelopes ==
    UNION { { [path |-> p, idx |-> i, line |-> files[p][i]] : i \in 1..Len(files[p]) } : p \in DOMAIN files }

\* OpenOptions::new().create(true).append(true).open(file_path); writeln!
save_to_file(fs, file_path, line) ==
    IF file_path \in DOMAIN fs
    THEN [fs EXCEPT ![file_path] = Append(@, line)]
    ELSE fs @@ (file_path :> <<line>>)

\* the thread has ended: what it captured and its locals are dropped
Ended(task, how) == [task EXCEPT !.pc = how, !.api = "", !.file_path = <<>>, !.last = 0]

\* a call that has returned is looked at before anything else moves
Running == pc # "ret"

\* lines 120-130: the first alignment, create_directory succeeds, the locals are set
WorkerAlign(t) ==
    /\ Running
    /\ tasks[t].pc = "align"
    /\ tasks' = [tasks EXCEPT ![t].pc = "loop",
                              ![t].file_path = Dir(tasks[t].api, tasks[t].ticker),
                              ![t].last = 0]
    /\ UNCHANGED <<handles, alive, files, now, pc, op, pending, joining, retired, hist>>

\* lines 120-127, 174: create_dir_all fails, expect panics the thread
WorkerMkdirFail(t) ==
    /\ Running
    /\ tasks[t].pc = "align"
    /\ tasks' = [tasks EXCEPT ![t] = Ended(tasks[t], "panicked")]
    /\ retired' = retired \ {t}
    /\ UNCHANGED <<handles, alive, files, now, pc, op, pending, joining, hist>>

\* line 132: while alive.load(SeqCst)
WorkerLoop(t) ==
    /\ Running
    /\ tasks[t].pc = "loop"
    /\ tasks' = [tasks EXCEPT ![t] = IF alive[tasks[t].sym]
                                      THEN [tasks[t] EXCEPT !.pc = "fetch"]
                                      ELSE Ended(tasks[t], "done")]
    /\ retired' = IF alive[tasks[t].sym] THEN retired ELSE retired \ {t}
    /\ UNCHANGED <<handles, alive, files, now, pc, op, pending, joining, hist>>

\* lines 145-152: the rotation state after a successful fetch at the given timestamp
Rotation(task, timestamp) ==
    LET dir == Dir(task.api, task.ticker)
        hour_timestamp == HourTimestamp(timestamp) IN
    IF Rotates(hour_timestamp, task.last)
    THEN [file_path |-> RotatedPath(task.file_path, dir, hour_timestamp), last |-> hour_timestamp]
    ELSE [file_path |-> task.file_path, last |-> task.last]

\* opening the directory itself for append fails
Openable(task, file_path) == file_path # Dir(task.api, task.ticker)

\* lines 133-155, 160-163: the fetch returns Ok, the envelope is saved
FetchOk(t) ==
    /\ Running
    /\ tasks[t].pc = "fetch"
    /\ LET timestamp == now \div 1000
           rot == Rotation(tasks[t], timestamp) IN
       /\ Openable(tasks[t], rot.file_path)
       /\ files' = save_to_file(files, rot.file_path, [time |-> timestamp, by |-> t])
       /\ tasks' = [tasks EXCEPT ![t].pc = "loop",
                                 ![t].file_path = rot.file_path,
                                 ![t].last = rot.last]
    /\ UNCHANGED <<handles, alive, now, pc, op, pending, joining, retired>>

\* lines 133-154, 185-191: the fetch returns Ok, open or write fails, expect panics
SaveFail(t) ==
    /\ Running
    /\ tasks[t].pc = "fetch"
    /\ tasks' = [tasks EXCEPT ![t] = Ended(tasks[t], "panicked")]
    /\ retired' = retired \ {t}
    /\ UNCHANGED <<handles, alive, files, now, pc, op, pending, joining>>

\* the error arm leaves the loop
AfterFetchErrBreaks(task) == [task EXCEPT !.pc = "done", !.file_path = <<>>, !.last = 0]

\* lines 156-163: what an iteration whose fetch returned Err leaves of the task
AfterFetchErr(task) == [task EXCEPT !.pc = "loop"]

\* lines 133, 156-163: the fetch returns Err
FetchErr(t) ==
    /\ Running
    /\ tasks[t].pc = "fetch"
    /\ tasks' = [tasks EXCEPT ![t] = AfterFetchErr(tasks[t])]
    /\ UNCHANGED <<handles, alive, files, now, pc, op, pending, joining, retired>>

\* the three ways a fetch ends, with the number of lines on disk bounded
WorkerFetchOk(t) == Cardinality(Envelopes) < MaxAppends /\ FetchOk(t) /\ UNCHANGED hist

WorkerSaveFail(t) == SaveFail(t) /\ UNCHANGED hist

WorkerFetchErr(t) == FetchErr(t) /\ UNCHANGED hist

\* what a fetch of task t found and left: the kind of its end, the timestamp, the rotation
\* state before and after, whether a line was appended, where the thread went
Entry(kind, t) ==
    [kind |-> kind, time |-> now \div 1000,
     before |-> [file_path |-> tasks[t].file_path, last |-> tasks[t].last],
     after |-> [file_path |-> tasks'[t].file_path, last |-> tasks'[t].last],
     appended |-> files' # files, pc |-> tasks'[t].pc]

\* the same three, with the fetch recorded and the number of fetches bounded
TracedFetchOk(t) ==
    /\ Len(hist) < MaxFetches
    /\ FetchOk(t)
    /\ hist' = Append(hist, Entry("saved", t))

TracedSaveFail(t) ==
    /\ Len(hist) < MaxFetches
    /\ SaveFail(t)
    /\ hist' = Append(hist, Entry("save_failed", t))

TracedFetchErr(t) ==
    /\ Len(hist) < MaxFetches
    /\ FetchErr(t)
    /\ hist' = Append(hist, Entry("err", t))

-----------------------------------------------------------------------------
(* The wall clock *)

\* 1970-01-01 00:30:00, 01:00:00, 01:59:59, 02:00:00, 03:00:00 in epoch milliseconds
Instants == {1800000, 3600000, 7199000, 7200000, 10800000}

\* the clock when the program starts: 1970-01-01 01:59:59
Boot == 7199 * 1000

\* Utc::now() reads the system clock, which runs forward and can be set back
Tick ==
    /\ \E t \in Instants \ {now} : now' = t
    /\ UNCHANGED <<handles, alive, tasks, files, pc, op, pending, joining, retired, hist>>

-----------------------------------------------------------------------------
(* The worker against the clock: how long each operation takes and each sleep lasts *)

\* how long the start is delayed, create_dir_all takes, or a fetch with its write takes, in
\* milliseconds; 0 is an operation that ends in the millisecond it began
Durations == {0, 1, 250, 1000, 1750}

\* the fetches begun so far
Fetches == { i \in DOMAIN hist : hist[i].kind = "fetch" }

\* the program is started some time after Boot
Elapse(d) ==
    /\ pc = "idle"
    /\ Len(tasks) = 0
    /\ now = Boot
    /\ d > 0
    /\ now' = now + d
    /\ UNCHANGED <<handles, alive, tasks, files, pc, op, pending, joining, retired, hist>>

\* lines 120-124: the first alignment; the sleep wakes on time
PacedAlign(t) ==
    /\ Running
    /\ tasks[t].pc = "align"
    /\ now' = now + Suspension(tasks[t].api, now)
    /\ tasks' = [tasks EXCEPT ![t].pc = "mkdir"]
    /\ hist' = Append(hist, [kind |-> "sleep", at |-> now, for |-> now' - now,
                             every |-> IntervalMs(tasks[t].api)])
    /\ UNCHANGED <<handles, alive, files, pc, op, pending, joining, retired>>

\* lines 126-130: create_directory takes d and succeeds, the locals are set
PacedMkdir(t, d) ==
    /\ Running
    /\ tasks[t].pc = "mkdir"
    /\ now' = now + d
    /\ tasks' = [tasks EXCEPT ![t].pc = "loop",
                              ![t].file_path = Dir(tasks[t].api, tasks[t].ticker),
                              ![t].last = 0]
    /\ hist' = Append(hist, [kind |-> "mkdir", at |-> now, for |-> d,
                             every |-> IntervalMs(tasks[t].api)])
    /\ UNCHANGED <<handles, alive, files, pc, op, pending, joining, retired>>

\* lines 132-133: the flag is read and, if true, the fetch begins at this instant
PacedLoop(t) ==
    /\ Running
    /\ tasks[t].pc = "loop"
    /\ Cardinality(Fetches) < MaxFetches
    /\ IF alive[tasks[t].sym]
       THEN /\ tasks' = [tasks EXCEPT ![t].pc = "fetch"]
            /\ hist' = Append(hist, [kind |-> "fetch", at |-> now, for |-> 0,
                                     every |-> IntervalMs(tasks[t].api)])
       ELSE /\ tasks' = [tasks EXCEPT ![t] = Ended(tasks[t], "done")]
            /\ hist' = hist
    /\ UNCHANGED <<handles, alive, files, now, pc, op, pending, joining, retired>>

\* lines 133-155, 160-163: the fetch returns Ok after d (the write included), the envelope is
\* saved, the suspension is computed from the clock and the sleep wakes on time
PacedFetchOk(t, d) ==
    /\ Running
    /\ tasks[t].pc = "fetch"
    /\ LET end == now + d
           timestamp == end \div 1000
           rot == Rotation(tasks[t], timestamp) IN
       /\ Openable(tasks[t], rot.file_path)
       /\ files' = save_to_file(files, rot.file_path, [time |-> timestamp, by |-> t])
       /\ tasks' = [tasks EXCEPT ![t].pc = "loop",
                                 ![t].file_path = rot.file_path,
                                 ![t].last = rot.last]
       /\ now' = end + Suspension(tasks[t].api, end)
       /\ hist' = Append(hist, [kind |-> "sleep", at |-> end, for |-> now' - end,
                                every |-> IntervalMs(tasks[t].api)])
    /\ UNCHANGED <<handles, alive, pc, op, pending, joining, retired>>

\* lines 133, 156-163: the fetch returns Err after d, the suspension is computed from the
\* clock and the sleep wakes on time
PacedFetchErr(t, d) ==
    /\ Running
    /\ tasks[t].pc = "fetch"
    /\ LET end == now + d IN
       /\ tasks' = [tasks EXCEPT ![t] = AfterFetchErr(tasks[t])]
       /\ now' = end + Suspension(tasks[t].api, end)
       /\ hist' = Append(hist, [kind |-> "sleep", at |-> end, for |-> now' - end,
                                every |-> IntervalMs(tasks[t].api)])
    /\ UNCHANGED <<handles, alive, files, pc, op, pending, joining, retired>>

-----------------------------------------------------------------------------
(* The registry: OrderBookCollector *)

Insert(f, k, v) == [x \in DOMAIN f \cup {k} |-> IF x = k THEN v ELSE f[x]]

\* the entry is left in the map
RemoveNothing(f, k) == f

Remove(f, k) == [x \in DOMAIN f \ {k} |-> f[x]]

Range(s) == { s[i] : i \in DOMAIN s }

Event(ev, symbol) == [ev |-> ev, sym |-> symbol]

\* no configuration: the call does not come from update_tasks_based_on_config
NoLoad == [ok |-> FALSE, cex |-> "-"]

NoOp ==
    [name |-> "none", symbols |-> <<>>, api |-> "", load |-> NoLoad, again |-> FALSE,
     preHandles |-> <<>>, preAlive |-> <<>>, preApis |-> <<>>, preTasks |-> 0,
     log |-> <<>>, writes |-> {}]

\* a call is entered: its arguments, what Config::load gave when it comes from the trigger,
\* whether it repeats the call before it, and the registry it finds (the maps, the client of
\* each registered thread, the number of threads spawned so far); log and writes collect the
\* calls of start and stop it makes and the flags it stores to
Entered(name, symbols, api, load, again) ==
    [name |-> name, symbols |-> symbols, api |-> api, load |-> load, again |-> again,
     preHandles |-> handles, preAlive |-> alive,
     preApis |-> [s \in DOMAIN handles |-> tasks[handles[s]].api],
     preTasks |-> Len(tasks), log |-> <<>>, writes |-> {}]

\* the part of the state a call works on
Ctx(o) == [handles |-> handles, alive |-> alive, tasks |-> tasks, log |-> o.log, writes |-> o.writes]

\* the flag is created and stored to before the symbol is parsed
startFlagFirst(c, symbol, api) ==
    LET ticker == TickerNew(symbol) IN
    IF ticker.some
    THEN [handles |-> Insert(c.handles, symbol, Len(c.tasks) + 1),
          alive |-> Insert(c.alive, symbol, TRUE),
          tasks |-> Append(c.tasks, NewTask(symbol, ticker, api)),
          log |-> Append(c.log, Event("start", symbol)),
          writes |-> c.writes \cup {symbol}]
    ELSE [c EXCEPT !.alive = Insert(c.alive, symbol, TRUE),
                   !.log = Append(@, Event("start", symbol)),
                   !.writes = @ \cup {symbol}]

\* OrderBookCollector::start
start(c, symbol, api) ==
    LET ticker == TickerNew(symbol) IN
    IF ticker.some
    THEN [handles |-> Insert(c.handles, symbol, Len(c.tasks) + 1),
          alive |-> Insert(c.alive, symbol, TRUE),
          tasks |-> Append(c.tasks, NewTask(symbol, ticker, api)),
          log |-> Append(c.log, Event("start", symbol)),
          writes |-> c.writes \cup {symbol}]
    ELSE [c EXCEPT !.log = Append(@, Event("start", symbol))]

\* every desired symbol is started, registered or not
NotRegisteredAlways(h, symbol) == TRUE

\* start_multiple, line 94: the guard of a start
NotRegistered(h, symbol) == symbol \notin DOMAIN h

\* every registered symbol is stopped, desired or not
ObsoleteAll(symbol_set, existing_symbol) == TRUE

\* no registered symbol is stopped, desired or not
ObsoleteNone(symbol_set, existing_symbol) == FALSE

\* start_multiple, line 88: the guard of a stop
Obsolete(symbol_set, existing_symbol) == existing_symbol \notin symbol_set

\* start_multiple, lines 93-97
RECURSIVE StartLoop(_, _, _, _)
StartLoop(c, symbols, i, api) ==
    IF i > Len(symbols) THEN c
    ELSE StartLoop(IF NotRegistered(c.handles, symbols[i]) THEN start(c, symbols[i], api) ELSE c,
                   symbols, i + 1, api)

\* the threads of a symbol that have not ended
TasksOf(symbol) == { t \in TaskIds : tasks[t].sym = symbol /\ Live(t) }

\* a direct call of start, while fewer than max threads have been spawned
StartWithin(symbol, api, max) ==
    /\ pc = "idle"
    /\ Len(tasks) < max
    /\ LET o == Entered("start", <<symbol>>, api, NoLoad, FALSE)
           c == start(Ctx(o), symbol, api) IN
       /\ handles' = c.handles
       /\ alive' = c.alive
       /\ tasks' = c.tasks
       /\ op' = [o EXCEPT !.log = c.log, !.writes = c.writes]
    /\ pc' = "ret"
    /\ UNCHANGED <<files, now, pending, joining, retired, hist>>

\* a direct call of start
Start(symbol, api) == StartWithin(symbol, api, MaxTasks)

\* OrderBookCollector::stop up to handle.join(), lines 66-69; join is the handle removed, 0 if none
stop(c, symbol) ==
    IF symbol \in DOMAIN c.alive
    THEN [handles |-> Remove(c.handles, symbol),
          alive |-> [c.alive EXCEPT ![symbol] = FALSE],
          log |-> Append(c.log, Event("stop", symbol)),
          writes |-> c.writes \cup {symbol},
          join |-> IF symbol \in DOMAIN c.handles THEN c.handles[symbol] ELSE 0]
    ELSE [handles |-> c.handles, alive |-> c.alive,
          log |-> Append(c.log, Event("stop", symbol)), writes |-> c.writes, join |-> 0]

\* a direct call of stop: it returns at once when there is no handle to join
Stop(symbol) ==
    /\ pc = "idle"
    /\ LET o == Entered("stop", <<symbol>>, "", NoLoad, FALSE)
           c == stop(Ctx(o), symbol) IN
       /\ handles' = c.handles
       /\ alive' = c.alive
       /\ joining' = c.join
       /\ pc' = IF c.join # 0 THEN "join" ELSE "ret"
       /\ op' = [o EXCEPT !.log = IF c.join # 0 THEN c.log ELSE Append(c.log, Event("stopped", symbol)),
                          !.writes = c.writes]
       /\ retired' = IF c.join # 0 THEN retired ELSE retired \cup TasksOf(symbol)
    /\ UNCHANGED <<tasks, files, now, pending, hist>>

\* the symbols a start of each would spawn a task for
WouldSpawn(symbols) ==
    { s \in Range(symbols) : TickerNew(s).some /\ s \notin DOMAIN handles }

\* OrderBookCollector::start_multiple from the entry, or from the return of a stop, up to the
\* next handle.join() or to the end: lines 87-91 stop the next key that is not desired
\* (the keys of a HashMap come in any order), lines 93-97 start the desired symbols
StartMultipleFrom(o, keys) ==
    IF \E s \in keys : Obsolete(Range(o.symbols), s)
    THEN \E s \in { k \in keys : Obsolete(Range(o.symbols), k) } :
            LET c == stop([handles |-> handles, alive |-> alive, log |-> o.log, writes |-> o.writes], s) IN
            /\ handles' = c.handles
            /\ alive' = c.alive
            /\ pending' = keys \ {s}
            /\ joining' = c.join
            /\ pc' = "join"
            /\ op' = [o EXCEPT !.log = c.log, !.writes = c.writes]
            /\ UNCHANGED tasks
    ELSE LET c == StartLoop([handles |-> handles, alive |-> alive, tasks |-> tasks,
                             log |-> o.log, writes |-> o.writes], o.symbols, 1, o.api) IN
            /\ handles' = c.handles
            /\ alive' = c.alive
            /\ tasks' = c.tasks
            /\ pending' = {}
            /\ pc' = "ret"
            /\ op' = [o EXCEPT !.log = c.log, !.writes = c.writes]
            /\ UNCHANGED joining

\* OrderBookCollector::start_multiple, lines 85-87: the call is entered, the keys are collected
start_multiple(symbols, api, load, again) ==
    /\ Len(tasks) + Cardinality(WouldSpawn(symbols)) <= MaxTasks
    /\ StartMultipleFrom(Entered("start_multiple", symbols, api, load, again), DOMAIN handles)
    /\ UNCHANGED <<files, now, retired, hist>>

\* line 70: handle.join() returns Ok once the thread has ended and stop returns, to its
\* caller or into start_multiple
Join ==
    /\ pc = "join"
    /\ tasks[joining].pc = "done"
    /\ retired' = retired \cup TasksOf(tasks[joining].sym)
    /\ LET o == [op EXCEPT !.log = Append(@, Event("stopped", tasks[joining].sym))] IN
       IF op.name = "stop"
       THEN /\ pc' = "ret"
            /\ op' = o
            /\ joining' = 0
            /\ UNCHANGED <<handles, alive, tasks, pending>>
       ELSE StartMultipleFrom(o, pending)
    /\ UNCHANGED <<files, now, hist>>

\* line 70: the thread panicked, join returns Err and expect panics the caller
JoinPanic ==
    /\ pc = "join"
    /\ tasks[joining].pc = "panicked"
    /\ pc' = "panicked"
    /\ UNCHANGED <<handles, alive, tasks, files, now, op, pending, joining, retired, hist>>

\* OrderBookCollector::stop_all, lines 103-107: every flag is cleared, the handles are drained
StopAll ==
    /\ pc = "idle"
    /\ alive' = [s \in DOMAIN alive |-> FALSE]
    /\ op' = [Entered("stop_all", <<>>, "", NoLoad, FALSE) EXCEPT !.writes = DOMAIN alive]
    /\ pending' = { handles[s] : s \in DOMAIN handles }
    /\ handles' = <<>>
    /\ pc' = IF DOMAIN handles = {} THEN "ret" ELSE "all_join"
    /\ UNCHANGED <<tasks, files, now, joining, retired, hist>>

\* line 108: a drained handle is joined; after the last one stop_all returns
StopAllJoin ==
    /\ pc = "all_join"
    /\ \E h \in pending :
        /\ tasks[h].pc = "done"
        /\ pending' = pending \ {h}
        /\ pc' = IF pending = {h} THEN "ret" ELSE "all_join"
        /\ retired' = IF pending = {h}
                      THEN retired \cup UNION { TasksOf(s) : s \in DOMAIN op.preHandles }
                      ELSE retired
    /\ UNCHANGED <<handles, alive, tasks, files, now, op, joining, hist>>

\* line 108: a drained handle's thread panicked, expect panics the caller
StopAllPanic ==
    /\ pc = "all_join"
    /\ \E h \in pending : tasks[h].pc = "panicked"
    /\ pc' = "panicked"
    /\ UNCHANGED <<handles, alive, tasks, files, now, op, pending, joining, retired, hist>>

\* the call has returned and the caller goes on
Return ==
    /\ pc = "ret"
    /\ pc' = "idle"
    /\ op' = NoOp
    /\ UNCHANGED <<handles, alive, tasks, files, now, pending, joining, retired, hist>>

-----------------------------------------------------------------------------
(* main.rs: the reconciliation trigger *)

CexNames == {"BINANCE", "BITKUB", "KRAKEN"}

RECURSIVE ListsUpTo(_)
ListsUpTo(n) ==
    IF n = 0 THEN { <<>> }
    ELSE ListsUpTo(n - 1)
            \cup { Append(l, s) : l \in { x \in ListsUpTo(n - 1) : Len(x) = n - 1 }, s \in SymbolPool }

Lists == ListsUpTo(MaxList)

\* what Config::load returns: Err, or Ok(config)
LoadResults ==
    { [ok |-> FALSE, cex |-> "", tickers |-> <<>>] }
        \cup { [ok |-> TRUE, cex |-> c, tickers |-> l] : c \in CexNames, l \in Lists }

\* the last branch falls back to a client instead of returning
SelectApiFallback(cex) == IF cex = "BITKUB" THEN "BITKUB" ELSE "BINANCE"

\* lines 24-31: the client chosen for config.cex, "" for the unsupported branch
SelectApi(cex) ==
    IF cex = "BINANCE" THEN "BINANCE"
    ELSE IF cex = "BITKUB" THEN "BITKUB"
    ELSE ""

\* lines 20-31: whether update_tasks_based_on_config reaches start_multiple
Accepted(load) == load.ok /\ SelectApi(load.cex) # ""

\* update_tasks_based_on_config: the configuration loads and names a supported exchange
UpdateTasks(load) ==
    /\ pc = "idle"
    /\ Accepted(load)
    /\ start_multiple(load.tickers, SelectApi(load.cex), [ok |-> load.ok, cex |-> load.cex], FALSE)

\* the watcher fires again on the same configuration: the same call, right after it returned
UpdateTasksAgain ==
    /\ pc = "ret"
    /\ op.name = "start_multiple"
    /\ ~op.again
    /\ start_multiple(op.symbols, op.api, op.load, TRUE)

\* update_tasks_based_on_config: Err(e), or the unsupported branch
UpdateTasksRejected(load) ==
    /\ pc = "idle"
    /\ ~Accepted(load)
    /\ op' = Entered("update", <<>>, "", [ok |-> load.ok, cex |-> load.cex], FALSE)
    /\ pc' = "ret"
    /\ UNCHANGED <<handles, alive, tasks, files, now, pending, joining, retired, hist>>

-----------------------------------------------------------------------------
(* The system *)

Init ==
    /\ handles = <<>>
    /\ alive = <<>>
    /\ tasks = <<>>
    /\ files = <<>>
    /\ now = Boot
    /\ pc = "idle"
    /\ op = NoOp
    /\ pending = {}
    /\ joining = 0
    /\ retired = {}
    /\ hist = <<>>

Next ==
    \/ \E t \in TaskIds : WorkerAlign(t)
    \/ \E t \in TaskIds : WorkerMkdirFail(t)
    \/ \E t \in TaskIds : WorkerLoop(t)
    \/ \E t \in TaskIds : WorkerFetchOk(t)
    \/ \E t \in TaskIds : WorkerSaveFail(t)
    \/ \E t \in TaskIds : WorkerFetchErr(t)
    \/ \E s \in SymbolPool, a \in Apis : Start(s, a)
    \/ \E s \in SymbolPool : Stop(s)
    \/ \E load \in LoadResults : UpdateTasks(load)
    \/ UpdateTasksAgain
    \/ \E load \in LoadResults : UpdateTasksRejected(load)
    \/ Join
    \/ JoinPanic
    \/ StopAll
    \/ StopAllJoin
    \/ StopAllPanic
    \/ Return

Spec == Init /\ [][Next]_vars

\* the one start of this specification
FirstStart(s, a) == Len(tasks) = 0 /\ Start(s, a)

\* one worker, watched fetch by fetch, under a clock that moves
NextWorker ==
    \/ \E t \in TaskIds : WorkerAlign(t)
    \/ \E t \in TaskIds : WorkerMkdirFail(t)
    \/ \E t \in TaskIds : WorkerLoop(t)
    \/ \E t \in TaskIds : TracedFetchOk(t)
    \/ \E t \in TaskIds : TracedSaveFail(t)
    \/ \E t \in TaskIds : TracedFetchErr(t)
    \/ Tick
    \/ \E s \in SymbolPool, a \in Apis : FirstStart(s, a)
    \/ \E s \in SymbolPool : Stop(s)
    \/ Join
    \/ JoinPanic
    \/ Return

SpecWorker == Init /\ [][NextWorker]_vars

\* one start on any symbol string: Ticker::new on it, the thread it spawns, its directory
NextTicker ==
    \/ \E s \in Strings, a \in Apis : FirstStart(s, a)
    \/ \E t \in TaskIds : WorkerAlign(t)
    \/ Return

SpecTicker == Init /\ [][NextTicker]_vars

\* one worker against the clock
NextCadence ==
    \/ \E d \in Durations : Elapse(d)
    \/ \E s \in SymbolPool, a \in Apis : FirstStart(s, a)
    \/ Return
    \/ \E t \in TaskIds : PacedAlign(t)
    \/ \E t \in TaskIds, d \in Durations : PacedMkdir(t, d)
    \/ \E t \in TaskIds : PacedLoop(t)
    \/ \E t \in TaskIds, d \in Durations : PacedFetchOk(t, d)
    \/ \E t \in TaskIds, d \in Durations : PacedFetchErr(t, d)

SpecCadence == Init /\ [][NextCadence]_vars

\* direct starts and stops of the symbols, up to MaxRestarts threads
NextRestart ==
    \/ \E t \in TaskIds : WorkerAlign(t)
    \/ \E t \in TaskIds : WorkerLoop(t)
    \/ \E t \in TaskIds : WorkerFetchOk(t)
    \/ \E t \in TaskIds : WorkerFetchErr(t)
    \/ \E s \in SymbolPool, a \in Apis : StartWithin(s, a, MaxRestarts)
    \/ \E s \in SymbolPool : Stop(s)
    \/ Join
    \/ Return

SpecRestart == Init /\ [][NextRestart]_vars

\* any step of a worker thread
WorkerStep(t) ==
    \/ WorkerAlign(t)
    \/ WorkerMkdirFail(t)
    \/ WorkerLoop(t)
    \/ WorkerFetchOk(t)
    \/ WorkerSaveFail(t)
    \/ WorkerFetchErr(t)

\* one worker and the stop of it
NextCancel ==
    \/ \E t \in TaskIds : WorkerAlign(t)
    \/ \E t \in TaskIds : WorkerMkdirFail(t)
    \/ \E t \in TaskIds : WorkerLoop(t)
    \/ \E t \in TaskIds : WorkerFetchOk(t)
    \/ \E t \in TaskIds : WorkerSaveFail(t)
    \/ \E t \in TaskIds : WorkerFetchErr(t)
    \/ \E s \in SymbolPool, a \in Apis : FirstStart(s, a)
    \/ \E s \in SymbolPool : Stop(s)
    \/ Join
    \/ JoinPanic
    \/ Return

\* the threads are scheduled, a fetch in progress returns, and a join of an ended thread returns
SpecCancel ==
    /\ Init
    /\ [][NextCancel]_vars
    /\ WF_vars(\E t \in TaskIds : WorkerStep(t))
    /\ WF_vars(Join)
    /\ WF_vars(JoinPanic)

-----------------------------------------------------------------------------
(* Properties *)

HasSeparator(symbol) == "_" \in Range(symbol)

\* the symbols of a list that parse as a Ticker
Valid(symbols) == { s \in Range(symbols) : HasSeparator(s) }

\* the call of that name has just returned
Returned(name) == pc = "ret" /\ op.name = name

\* the symbols the call in progress has logged the event for
Logged(ev) == { op.log[i].sym : i \in { j \in DOMAIN op.log : op.log[j].ev = ev } }

LiveTasksOf(symbol) == { t \in TaskIds : tasks[t].sym = symbol /\ Live(t) }

LinesBy(t) == Cardinality({ e \in Envelopes : e.line.by = t })

RegistryAsEntered ==
    /\ handles = op.preHandles
    /\ alive = op.preAlive
    /\ Len(tasks) = op.preTasks
    /\ op.writes = {}

\* C1: start(symbol, client) on a symbol that has a registered worker spawns no task and
\* leaves the handle and the flag of that symbol as they were.
StartRegisteredIsNoOp ==
    (Returned("start") /\ op.symbols[1] \in DOMAIN op.preHandles) => RegistryAsEntered

\* C2: between the calls of the control thread, no symbol has more than one worker thread
\* that has not ended.
OneLiveWorkerPerSymbol ==
    pc \in {"idle", "ret"} => \A s \in SymbolPool : Cardinality(LiveTasksOf(s)) <= 1

\* C3: a thread of a symbol whose stop (or stop_all) has returned appends no further line.
NoAppendAfterStop == [][\A t \in retired : LinesBy(t)' = LinesBy(t)]_vars

\* C4: start_multiple(D, client) called again right after it returned spawns no task, stops
\* no task, stores to no flag and leaves the registry as it found it.
StartMultipleIdempotent ==
    (Returned("start_multiple") /\ op.again) => (RegistryAsEntered /\ Logged("stop") = {})

StartMultipleIdempotentWitness ==
    /\ Returned("start_multiple")
    /\ op.again
    /\ Cardinality(DOMAIN handles) = 2
    /\ \A s \in DOMAIN handles : Live(handles[s])

\* C5: start_multiple(D, client) with registered set R calls stop on the symbols of R \ D and
\* on no other; a symbol of R that is in D keeps its handle (the same thread), its flag is not
\* stored to, and its thread keeps the client it was started with, whatever client is passed.
StartMultipleFrame ==
    op.name = "start_multiple" =>
        LET R == DOMAIN op.preHandles
            D == Range(op.symbols) IN
        /\ Logged("stop") \subseteq R \ D
        /\ pc = "ret" => Logged("stop") = R \ D
        /\ \A s \in R \cap D :
            /\ s \in DOMAIN handles
            /\ handles[s] = op.preHandles[s]
            /\ s \notin op.writes
            /\ Live(handles[s]) => tasks[handles[s]].api = op.preApis[s]

StartMultipleFrameWitness ==
    /\ Returned("start_multiple")
    /\ DOMAIN op.preHandles \ Range(op.symbols) # {}
    /\ \E s \in DOMAIN op.preHandles \cap Range(op.symbols) :
        /\ Live(handles[s])
        /\ tasks[handles[s]].api # op.api

\* C6: when start_multiple(D, client) returns, the registered symbols are the symbols of D
\* that parse as a Ticker, and within the call every stop has returned before the first start.
StartMultipleConverges ==
    op.name = "start_multiple" =>
        /\ \A i, j \in DOMAIN op.log :
            (op.log[i].ev = "start" /\ op.log[j].ev \in {"stop", "stopped"}) => j < i
        /\ pc = "ret" =>
            /\ DOMAIN handles = Valid(op.symbols)
            /\ Logged("stopped") = Logged("stop")

StartMultipleConvergesWitness ==
    /\ Returned("start_multiple")
    /\ Logged("stopped") # {}
    /\ Logged("start") # {}
    /\ Len(op.symbols) > Cardinality(Range(op.symbols))

\* C7: a symbol with no separator never gets a flag, a handle or a thread; start on it leaves
\* the registry as it was; in start_multiple it keeps no valid desired symbol from being
\* registered and no obsolete one from being removed.
InvalidSymbolNoEffect ==
    /\ \A s \in SymbolPool :
        ~HasSeparator(s) =>
            /\ s \notin DOMAIN alive
            /\ s \notin DOMAIN handles
            /\ \A t \in TaskIds : tasks[t].sym # s
    /\ (Returned("start") /\ ~HasSeparator(op.symbols[1])) => RegistryAsEntered
    /\ Returned("start_multiple") =>
        /\ \A s \in Valid(op.symbols) : s \in DOMAIN handles
        /\ \A s \in DOMAIN op.preHandles \ Range(op.symbols) : s \notin DOMAIN handles

InvalidSymbolNoEffectWitness ==
    /\ Returned("start_multiple")
    /\ \E s \in Logged("start") : ~HasSeparator(s)
    /\ \E s \in Logged("start") : HasSeparator(s) /\ s \in DOMAIN handles
    /\ Logged("stopped") # {}

\* C8: a fetch that returns Err appends no line, leaves file_path and
\* last_saved_hour_timestamp as they were and takes the thread back to the loop condition,
\* however many fetches failed before it.
FailedFetchIsLocal ==
    \A i \in DOMAIN hist :
        hist[i].kind = "err" =>
            /\ ~hist[i].appended
            /\ hist[i].after = hist[i].before
            /\ hist[i].pc = "loop"

FailedFetchIsLocalWitness ==
    /\ Len(hist) = MaxFetches
    /\ \A i \in DOMAIN hist : hist[i].kind = "err"
    /\ tasks[1].pc = "fetch"

\* what the configuration names as a supported exchange
Supported == {"BINANCE", "BITKUB"}

\* C9: a trigger whose configuration fails to load, or names an unsupported exchange, starts
\* no worker, stops none, stores to no flag and leaves the registry as it was.
RejectedConfigNoEffect ==
    (op.name \in {"update", "start_multiple"} /\ ~(op.load.ok /\ op.load.cex \in Supported))
        => RegistryAsEntered

RejectedConfigNoEffectWitness ==
    /\ Returned("update")
    /\ op.load.ok
    /\ \E s \in DOMAIN handles : Live(handles[s])

\* the hour bucket of a timestamp: floor(time / 3600) * 3600
Bucket(time) == time - (time % 3600)

\* every line is in the file of its own bucket, in the directory of the symbol of its writer
InOwnBucket ==
    \A e \in Envelopes :
        /\ Len(e.path) = 4
        /\ e.path[3] = tasks[e.line.by].sym
        /\ e.path[4] = Bucket(e.line.time)

\* as many files as distinct buckets among the timestamps written
OneFilePerBucket ==
    Cardinality(DOMAIN files) = Cardinality({ Bucket(e.line.time) : e \in Envelopes })

\* the timestamps of the fetches that returned Ok, in order
Stamps == [i \in { j \in DOMAIN hist : hist[j].kind # "err" } |-> hist[i].time]

\* C10, as claimed: for any sequence of timestamps, every envelope is in the file of its own
\* bucket and there are as many files as distinct buckets.
RotationAnyClock == InOwnBucket /\ OneFilePerBucket

\* C10, amended: the same for timestamps that never decrease and are at or after 3600.
RotationMonotoneClock ==
    (/\ \A i \in DOMAIN Stamps : 3600 <= Stamps[i]
     /\ \A i, j \in DOMAIN Stamps : i < j => Stamps[i] <= Stamps[j])
        => (InOwnBucket /\ OneFilePerBucket)

RotationMonotoneClockWitness ==
    /\ Len(hist) = 3
    /\ \A i \in DOMAIN hist : hist[i].kind = "saved"
    /\ hist[1].time < hist[2].time
    /\ hist[2].time < hist[3].time
    /\ Cardinality(DOMAIN files) = 3

\* the positions of the separator in a symbol string
Separators(symbol) == { i \in DOMAIN symbol : symbol[i] = "_" }

\* C11: a symbol with a separator parses to the part before its first separator and the part
\* after it, and to_string of the Ticker (the last segment of the worker's directory) is the
\* symbol again; a symbol with no separator parses to nothing, so start spawns no thread.
TickerParses ==
    /\ \A t \in TaskIds :
        LET symbol == tasks[t].sym
            base == tasks[t].ticker.base
            quote == tasks[t].ticker.quote IN
        /\ Separators(base) = {}
        /\ Len(symbol) = Len(base) + 1 + Len(quote)
        /\ symbol[Len(base) + 1] = "_"
        /\ \A i \in DOMAIN base : base[i] = symbol[i]
        /\ \A i \in DOMAIN quote : quote[i] = symbol[Len(base) + 1 + i]
        /\ TickerToString(tasks[t].ticker) = symbol
        /\ tasks[t].pc = "loop" => tasks[t].file_path[3] = symbol
    /\ Returned("start") =>
        (Len(tasks) = op.preTasks + 1 <=> Separators(op.symbols[1]) # {})
    /\ Returned("start") => Len(tasks) \in {op.preTasks, op.preTasks + 1}

TickerParsesWitness ==
    /\ pc = "idle"
    /\ \E t \in TaskIds :
        /\ Cardinality(Separators(tasks[t].sym)) = 2
        /\ tasks[t].pc = "loop"
        /\ tasks[t].ticker.base # <<>>

\* C17: every Ticker a thread is spawned with has a non-empty base and a non-empty quote.
TickerPartsNonEmpty ==
    \A t \in TaskIds : tasks[t].ticker.base # <<>> /\ tasks[t].ticker.quote # <<>>

\* the threads that ended on a storage failure (create_directory or save_to_file panicked)
StorageFailed == { t \in TaskIds : tasks[t].pc = "panicked" }

\* C12: a storage failure of one worker stays in that worker: the control thread is not
\* brought down by it, so every stop, start_multiple and stop_all issued afterwards returns.
StorageFailureConfined == StorageFailed # {} => pc # "panicked"

\* C13: a worker thread ends only through the loop condition reading its flag as false: no
\* thread has ended in any other way.
EndsOnlyByFlag == \A t \in TaskIds : ~Live(t) => tasks[t].pc = "done"

\* the stop in progress is blocked on thread t, which has not ended
StopWaitsFor(t) == pc = "join" /\ joining = t /\ t \in TaskIds /\ Live(t)

\* thread t has left its loop and the stop that waited for it has returned
StoppedAndReturned(t) == pc = "ret" /\ op.name = "stop" /\ t \in TaskIds /\ tasks[t].pc = "done"

\* C14: once stop has cleared the flag of a worker, the worker starts no iteration after its
\* next read of the flag, and it reaches the end of its loop and the blocked stop returns.
BoundedCancellation ==
    /\ [][\A t \in 1..MaxTasks :
            (StopWaitsFor(t) /\ tasks[t].pc \in {"align", "loop"}) => tasks'[t].pc # "fetch"]_vars
    /\ \A t \in 1..MaxTasks : StopWaitsFor(t) ~> StoppedAndReturned(t)

\* every suspension computed is 0 on a boundary and the rest of the interval otherwise
SuspensionAsSpecified ==
    \A i \in DOMAIN hist :
        hist[i].kind = "sleep" =>
            /\ hist[i].for = IF hist[i].at % hist[i].every = 0
                             THEN 0
                             ELSE hist[i].every - (hist[i].at % hist[i].every)
            /\ (hist[i].at + hist[i].for) % hist[i].every = 0

\* the fetch begun at that position of the trace began on a boundary of the interval
OnBoundary(i) == hist[i].at % hist[i].every = 0

OneFetchPerWindow ==
    \A i, j \in Fetches :
        i < j => hist[i].at \div hist[i].every # hist[j].at \div hist[j].every

\* the threads still running that have a line in the file
LiveWriters(p) == { files[p][i].by : i \in DOMAIN files[p] } \cap { t \in TaskIds : Live(t) }

\* C16: no file is appended to by two worker threads that are both still running.
NoSharedFile == \A p \in DOMAIN files : Cardinality(LiveWriters(p)) <= 1

\* C18: between the calls of the control thread, a symbol's flag exists and reads true if and
\* only if the symbol has a handle in the map.
FlagAndMapAgree ==
    pc \in {"idle", "ret"} =>
        \A s \in SymbolPool : (s \in DOMAIN alive /\ alive[s]) <=> s \in DOMAIN handles

FlagAndMapAgreeWitness ==
    /\ pc = "idle"
    /\ \E s \in DOMAIN alive : ~alive[s] /\ s \notin DOMAIN handles
    /\ \E s \in DOMAIN handles : alive[s] /\ tasks[handles[s]].pc = "panicked"

\* the start that has just returned was of a symbol whose flag it found stored false: the
\* last call on that symbol was a stop that returned
RestartReturned(s) ==
    /\ Returned("start")
    /\ op.symbols[1] = s
    /\ s \in DOMAIN op.preAlive
    /\ ~op.preAlive[s]

\* every file keeps the lines it has, in their order
FilesOnlyGrow ==
    \A p \in DOMAIN files :
        /\ p \in DOMAIN files'
        /\ Len(files'[p]) >= Len(files[p])
        /\ SubSeq(files'[p], 1, Len(files[p])) = files[p]

\* C20: a start of a symbol after a stop of it returns with one running worker for the symbol,
\* the new thread, with the flag true; and no append changes the lines a file already has.
RestartIsClean ==
    /\ [](\A s \in SymbolPool :
            RestartReturned(s) =>
                /\ alive[s]
                /\ LiveTasksOf(s) = {handles[s]}
                /\ handles[s] = Len(tasks))
    /\ [][FilesOnlyGrow]_vars

\* C21: between the calls of the control thread, every symbol that has a handle in the map
\* has a worker thread that has not ended.
RegisteredMeansRunning ==
    pc \in {"idle", "ret"} => \A s \in DOMAIN handles : Live(handles[s])

====
